---- MODULE Spec2Model ----
(***************************************************************************)
(* A model of ma_dataset.py: the Dataset -> Study -> outcome -> follow-up  *)
(* -> MetaAnalyticUnit -> TreatmentGroup hierarchy and its bookkeeping.    *)
(*                                                                         *)
(* Encoding of Python values.  A dict is a TLA+ function whose DOMAIN is   *)
(* the dict's key set; a list is a sequence.  Python strings are TLA+      *)
(* strings; the Python object None is written NoneVal.  Raw-data cells,    *)
(* covariate values and years are strings as well (a numeric cell 5 is     *)
(* written "5"), so that a cell can be tested against EMPTY_VALS.          *)
(* Outcome objects are mutable and shared between the studies of a         *)
(* dataset, so they live in a heap, outcome_objs, and are referred to by   *)
(* their address.  An operation that raises keeps the writes it made       *)
(* before raising; the exception's class is recorded in err.               *)
(***************************************************************************)
EXTENDS Integers, Sequences, FiniteSets, TLC

VARIABLES
    studies,                      \* Dataset.studies: list of Study
    outcome_names_to_follow_ups,  \* Dataset.outcome_names_to_follow_ups
    covariates,                   \* Dataset.covariates: list of Covariate
    outcome_objs,                 \* heap of Outcome objects: address -> [name, data_type]
    op,                           \* the last call and its arguments
    err,                          \* the exception the last call raised, or "none"
    ret,                          \* the value the last call returned
    pre,                          \* the dataset as it was before the last call
    clean,                        \* no call so far has raised
    steps                         \* number of calls made so far

vars == <<studies, outcome_names_to_follow_ups, covariates, outcome_objs,
          op, err, ret, pre, clean, steps>>

-----------------------------------------------------------------------------
(* Module level constants *)

BINARY == 0
CONTINUOUS == 1
DIAGNOSTIC == 2
FACTOR == 4

NoneVal == "None"

EMPTY_VALS == {"", NoneVal}

-----------------------------------------------------------------------------
(* Bounds and input domains *)

MaxStudies == 2
MaxSteps == 4
MaxIndex == 2
MaxSortLen == 3

StudyIds == 1..MaxStudies
StudyName(id) == IF id = 1 THEN "a" ELSE IF id = 2 THEN "b" ELSE "c"
OutcomeNames == {"o1", "o2"}
FollowUpNames == {"baseline", "f1"}
GroupNames == {"tx A", "tx B", "g"}
Cells == {"", NoneVal, "5"}
ObjAddrs == {"@1", "@2", "@3"}

-----------------------------------------------------------------------------
(* Python built-ins *)

Max(S) == CHOOSE x \in S : \A y \in S : y <= x
Min(S) == CHOOSE x \in S : \A y \in S : x <= y
Range(f) == {f[x] : x \in DOMAIN f}

EmptyDict == [x \in {} |-> x]
DictSet(d, k, v) == [x \in (DOMAIN d) \cup {k} |-> IF x = k THEN v ELSE d[x]]
DictPop(d, k) == [x \in (DOMAIN d) \ {k} |-> d[x]]

\* All the orders in which a set (or a dict's keys) may be iterated.
Orderings(S) ==
    {s \in [1..Cardinality(S) -> S] : \A x \in S : \E i \in DOMAIN s : s[i] = x}

\* list.remove(x): drops the first element equal to x.
ListRemove(l, x) ==
    LET i == Min({j \in 1..Len(l) : l[j] = x})
    IN [j \in 1..(Len(l) - 1) |-> IF j < i THEN l[j] ELSE l[j + 1]]

\* The total order of the values compared by cmp: None, then numbers, then
\* strings in lexicographic order (Python 2 orders mixed types this way).
PyOrder == <<NoneVal, "1999", "2005", "", "a", "b", "c", "o1", "o2", "x", "y">>
PyRank(v) == CHOOSE i \in 1..Len(PyOrder) : PyOrder[i] = v
cmp(a, b) == IF PyRank(a) < PyRank(b) THEN -1
             ELSE IF PyRank(a) > PyRank(b) THEN 1 ELSE 0

-----------------------------------------------------------------------------
(* two_way_dict.TwoWayDict: follow-up index <-> follow-up name *)

TwoWayDict == EmptyDict
TwoWayDict_has_value(d, v) == \E k \in DOMAIN d : d[k] = v
TwoWayDict_get_key(d, v) == Max({k \in DOMAIN d : d[k] = v})

-----------------------------------------------------------------------------
(* TreatmentGroup and MetaAnalyticUnit *)

TreatmentGroup(id, name, raw_data) ==
    [id |-> id, name |-> name, raw_data |-> raw_data]

BlankRow(n) == [x \in 1..n |-> ""]

\* add_group numbering the groups by their count instead of max(id) + 1.
MetaAnalyticUnit_add_group_by_count(unit, name, raw_data) ==
    LET id == Cardinality(DOMAIN unit.tx_groups)
    IN [unit EXCEPT !.tx_groups = DictSet(@, name, TreatmentGroup(id, name, raw_data))]

MetaAnalyticUnit_add_group(unit, name, raw_data) ==
    LET id == IF DOMAIN unit.tx_groups = {} THEN 0
              ELSE Max({unit.tx_groups[g].id : g \in DOMAIN unit.tx_groups}) + 1
    IN [unit EXCEPT !.tx_groups = DictSet(@, name, TreatmentGroup(id, name, raw_data))]

MetaAnalyticUnit_remove_group(unit, name) ==
    [unit EXCEPT !.tx_groups = DictPop(@, name)]

\* tx_groups[new_name] = tx_groups[old_name]; tx_groups.pop(old_name)
MetaAnalyticUnit_rename_group(unit, old_name, new_name) ==
    [unit EXCEPT !.tx_groups =
        DictPop(DictSet(@, new_name, @[old_name]), old_name)]

MetaAnalyticUnit_set_raw_data_for_group(unit, group_name, raw_data) ==
    [unit EXCEPT !.tx_groups[group_name].raw_data = raw_data]

UnitResult(unit, e) == [unit |-> unit, err |-> e]

\* for i, group in enumerate(groups):
\*     self.set_raw_data_for_group(group, raw_data_list[i])
\* raw_data_list[i] raises IndexError on a list that is too short and the
\* lookup of the group KeyError, the rows set before staying set.
RECURSIVE SetRawDataLoop(_, _, _, _)
SetRawDataLoop(unit, groups, raw_data_list, i) ==
    IF i > Len(groups) THEN UnitResult(unit, "none")
    ELSE IF i > Len(raw_data_list) THEN UnitResult(unit, "IndexError")
    ELSE IF groups[i] \notin DOMAIN unit.tx_groups THEN UnitResult(unit, "KeyError")
    ELSE SetRawDataLoop(
            MetaAnalyticUnit_set_raw_data_for_group(unit, groups[i], raw_data_list[i]),
            groups, raw_data_list, i + 1)

MetaAnalyticUnit_set_raw_data_for_groups(unit, groups, raw_data_list) ==
    SetRawDataLoop(unit, groups, raw_data_list, 1)

RECURSIVE AddGroups(_, _, _)
AddGroups(unit, group_names, i) ==
    IF i > Len(group_names) THEN unit
    ELSE AddGroups(
            MetaAnalyticUnit_add_group(unit, group_names[i],
                                       BlankRow(unit.raw_data_length)),
            group_names, i + 1)

\* MetaAnalyticUnit(outcome, group_names=group_names) with no raw data given.
\* group_names = << >> stands for None: Dataset never passes an empty list.
MetaAnalyticUnit(objs, outcome, group_names) ==
    LET names == IF group_names = << >> THEN <<"tx A", "tx B">> ELSE group_names
        empty == [outcome |-> outcome,
                  tx_groups |-> EmptyDict,
                  raw_data_length |-> IF objs[outcome].data_type = BINARY THEN 2 ELSE 3]
    IN AddGroups(empty, names, 1)

-----------------------------------------------------------------------------
(* Study *)

Study(id, name, year) ==
    [id |-> id, name |-> name, year |-> year,
     outcomes_to_follow_ups |-> EmptyDict,
     outcomes |-> << >>,
     covariate_dict |-> EmptyDict]

StudyResult(st, e) == [st |-> st, err |-> e]

Study_add_outcome(objs, st, outcome, follow_up_name, group_names) ==
    LET name == objs[outcome].name IN
    IF name \in DOMAIN st.outcomes_to_follow_ups
    THEN StudyResult(st, "Exception")
    ELSE StudyResult(
            [st EXCEPT
                !.outcomes_to_follow_ups =
                    DictSet(@, name,
                            DictSet(EmptyDict, follow_up_name,
                                    MetaAnalyticUnit(objs, outcome, group_names))),
                !.outcomes = Append(@, outcome)],
            "none")

\* for outcome in self.outcomes: if outcome.name == outcome_name:
\*     self.outcomes.remove(outcome)
\* The list iterator keeps an index into the list that is being shortened.
RECURSIVE RemoveOutcomeLoop(_, _, _, _)
RemoveOutcomeLoop(objs, l, i, outcome_name) ==
    IF i > Len(l) THEN l
    ELSE IF objs[l[i]].name = outcome_name
         THEN RemoveOutcomeLoop(objs, ListRemove(l, l[i]), i + 1, outcome_name)
         ELSE RemoveOutcomeLoop(objs, l, i + 1, outcome_name)

Study_remove_outcome(objs, st, outcome_name) ==
    IF outcome_name \notin DOMAIN st.outcomes_to_follow_ups
    THEN StudyResult(st, "KeyError")
    ELSE StudyResult(
            [st EXCEPT
                !.outcomes_to_follow_ups = DictPop(@, outcome_name),
                !.outcomes = RemoveOutcomeLoop(objs, @, 1, outcome_name)],
            "none")

\* The Outcome object or None (NoneVal).
Study_get_outcome(objs, st, outcome_name) ==
    LET hits == {i \in 1..Len(st.outcomes) : objs[st.outcomes[i]].name = outcome_name}
    IN IF hits = {} THEN NoneVal ELSE st.outcomes[Min(hits)]

Study_get_outcome_names(objs, st) ==
    [i \in 1..Len(st.outcomes) |-> objs[st.outcomes[i]].name]

Study_add_follow_up_to_outcome(objs, st, outcome, follow_up_name, group_names) ==
    LET name == objs[outcome].name IN
    IF name \notin DOMAIN st.outcomes_to_follow_ups
    THEN StudyResult(st, "KeyError")
    ELSE StudyResult(
            [st EXCEPT !.outcomes_to_follow_ups[name] =
                DictSet(@, follow_up_name, MetaAnalyticUnit(objs, outcome, group_names))],
            "none")

\* MetaAnalyticUnit(outcome) written at [outcome.name][follow_up]; the list
\* of outcome objects is not touched.
Study_add_outcome_at_follow_up(objs, st, outcome, follow_up) ==
    LET name == objs[outcome].name IN
    IF name \notin DOMAIN st.outcomes_to_follow_ups
    THEN StudyResult(st, "KeyError")
    ELSE StudyResult(
            [st EXCEPT !.outcomes_to_follow_ups[name] =
                DictSet(@, follow_up, MetaAnalyticUnit(objs, outcome, << >>))],
            "none")

Study_remove_follow_up_from_outcome(st, outcome_name, follow_up_name) ==
    IF outcome_name \notin DOMAIN st.outcomes_to_follow_ups
    THEN StudyResult(st, "KeyError")
    ELSE IF follow_up_name \notin DOMAIN st.outcomes_to_follow_ups[outcome_name]
    THEN StudyResult(st, "KeyError")
    ELSE StudyResult(
            [st EXCEPT !.outcomes_to_follow_ups[outcome_name] = DictPop(@, follow_up_name)],
            "none")

\* "unit.outcome in self.outcomes_to_follow_ups" looks an Outcome object up
\* among the dict's keys, which are names: an address is never a name.
Study_add_ma_unit(objs, st, unit, follow_up) ==
    LET added == IF ~(unit.outcome \in DOMAIN st.outcomes_to_follow_ups)
                 THEN Study_add_outcome(objs, st, unit.outcome, follow_up, << >>)
                 ELSE StudyResult(st, "none")
        name == objs[unit.outcome].name
    IN IF added.err # "none" THEN added
       ELSE IF name \notin DOMAIN added.st.outcomes_to_follow_ups
       THEN StudyResult(added.st, "KeyError")
       ELSE StudyResult(
               [added.st EXCEPT !.outcomes_to_follow_ups[name] =
                   DictSet(@, follow_up, unit)],
               "none")

-----------------------------------------------------------------------------
(* Dataset.  A dataset value ds holds the fields of the Dataset object and *)
(* the heap of Outcome objects; every method yields the dataset it leaves, *)
(* the exception it raised and the value it returned.                      *)

Dataset(stds, o2f, covs, objs) ==
    [studies |-> stds, outcome_names_to_follow_ups |-> o2f,
     covariates |-> covs, outcome_objs |-> objs]

Result(ds, e, r) == [ds |-> ds, err |-> e, ret |-> r]

\* The first study of the list, from 1, for which the loop body raises;
\* Len + 1 when the loop runs to its end.
FirstOf(bad, n) == IF bad = {} THEN n + 1 ELSE Min(bad)

UnitsOf(st) ==
    UNION {{<<o, f>> : f \in DOMAIN st.outcomes_to_follow_ups[o]} :
              o \in DOMAIN st.outcomes_to_follow_ups}

UnitAt(st, p) == st.outcomes_to_follow_ups[p[1]][p[2]]

\* The orders in which "for outcome_name in keys(): for ma_unit in values()"
\* may visit the units of a study: any key order, outcome by outcome.
UnitOrders(st) ==
    {s \in Orderings(UnitsOf(st)) :
        \A i, j, k \in DOMAIN s :
            (i < j /\ j < k /\ s[i][1] = s[k][1]) => s[j][1] = s[i][1]}

Dataset_get_group_names(ds) ==
    UNION {UNION {DOMAIN UnitAt(ds.studies[i], p).tx_groups :
                     p \in UnitsOf(ds.studies[i])} :
              i \in 1..Len(ds.studies)}

Dataset_get_outcome_obj(ds, outcome_name) ==
    LET hits == {i \in 1..Len(ds.studies) :
                    Study_get_outcome(ds.outcome_objs, ds.studies[i], outcome_name) # NoneVal}
    IN IF hits = {} THEN NoneVal
       ELSE Study_get_outcome(ds.outcome_objs, ds.studies[Min(hits)], outcome_name)

Dataset_get_follow_up_names_for_outcome(ds, outcome) ==
    UNION {DOMAIN ds.studies[i].outcomes_to_follow_ups[outcome] :
              i \in {j \in 1..Len(ds.studies) :
                        outcome \in DOMAIN ds.studies[j].outcomes_to_follow_ups}}

Dataset_add_study(ds, study) ==
    Result([ds EXCEPT !.studies = Append(@, study)], "none", NoneVal)

Dataset_remove_study(ds, id) ==
    LET keep == {i \in 1..Len(ds.studies) : ds.studies[i].id # id}
        nth(n) == CHOOSE i \in keep : Cardinality({j \in keep : j <= i}) = n
    IN Result([ds EXCEPT !.studies =
                  [n \in 1..Cardinality(keep) |-> ds.studies[nth(n)]]],
              "none", NoneVal)

\* cur_group_names is self.get_group_names() as a list, in the order the
\* set happens to be iterated; << >> when there are no groups (None).
Dataset_add_outcome(ds, outcome, cur_group_names) ==
    LET name == ds.outcome_objs[outcome].name
        n == Len(ds.studies)
        o2f == DictSet(ds.outcome_names_to_follow_ups, name,
                       DictSet(TwoWayDict, 0, "baseline"))
        k == FirstOf({i \in 1..n :
                         name \in DOMAIN ds.studies[i].outcomes_to_follow_ups}, n)
    IN Result(
          [ds EXCEPT
              !.outcome_names_to_follow_ups = o2f,
              !.studies = [i \in 1..n |->
                  IF i < k
                  THEN Study_add_outcome(ds.outcome_objs, ds.studies[i], outcome,
                                         "baseline", cur_group_names).st
                  ELSE ds.studies[i]]],
          IF k <= n THEN "Exception" ELSE "none", NoneVal)

Dataset_remove_outcome(ds, outcome_name) ==
    IF outcome_name \notin DOMAIN ds.outcome_names_to_follow_ups
    THEN Result(ds, "KeyError", NoneVal)
    ELSE
    LET n == Len(ds.studies)
        k == FirstOf({i \in 1..n :
                         outcome_name \notin DOMAIN ds.studies[i].outcomes_to_follow_ups}, n)
    IN Result(
          [ds EXCEPT
              !.outcome_names_to_follow_ups = DictPop(@, outcome_name),
              !.studies = [i \in 1..n |->
                  IF i < k
                  THEN Study_remove_outcome(ds.outcome_objs, ds.studies[i], outcome_name).st
                  ELSE ds.studies[i]]],
          IF k <= n THEN "KeyError" ELSE "none", NoneVal)

\* for outcome in study.outcomes: if outcome.name == old: outcome.name = new; break
\* run for the studies i..k-1 in turn, on the shared Outcome objects.
RECURSIVE RenameOutcomeObjs(_, _, _, _, _, _)
RenameOutcomeObjs(objs, stds, i, k, old_outcome_name, new_outcome_name) ==
    IF i >= k THEN objs
    ELSE LET hits == {j \in 1..Len(stds[i].outcomes) :
                         objs[stds[i].outcomes[j]].name = old_outcome_name}
             next == IF hits = {} THEN objs
                     ELSE [objs EXCEPT ![stds[i].outcomes[Min(hits)]].name =
                              new_outcome_name]
         IN RenameOutcomeObjs(next, stds, i + 1, k, old_outcome_name, new_outcome_name)

Dataset_change_outcome_name(ds, old_outcome_name, new_outcome_name) ==
    IF old_outcome_name \notin DOMAIN ds.outcome_names_to_follow_ups
    THEN Result(ds, "KeyError", NoneVal)
    ELSE
    LET n == Len(ds.studies)
        k == FirstOf({i \in 1..n :
                 old_outcome_name \notin DOMAIN ds.studies[i].outcomes_to_follow_ups}, n)
        move(d) == DictSet(DictPop(d, old_outcome_name), new_outcome_name,
                           d[old_outcome_name])
    IN Result(
          [ds EXCEPT
              !.outcome_names_to_follow_ups = move(@),
              !.studies = [i \in 1..n |->
                  IF i < k
                  THEN [ds.studies[i] EXCEPT !.outcomes_to_follow_ups = move(@)]
                  ELSE ds.studies[i]],
              !.outcome_objs = RenameOutcomeObjs(@, ds.studies, 1, k,
                                                 old_outcome_name, new_outcome_name)],
          IF k <= n THEN "KeyError" ELSE "none", NoneVal)

Dataset_add_follow_up_to_outcome(ds, outcome_name, follow_up_name, cur_group_names) ==
    LET outcome == Dataset_get_outcome_obj(ds, outcome_name) IN
    IF outcome = NoneVal THEN Result(ds, "AttributeError", NoneVal)
    ELSE
    LET name == ds.outcome_objs[outcome].name IN
    IF name \notin DOMAIN ds.outcome_names_to_follow_ups
    THEN Result(ds, "KeyError", NoneVal)
    ELSE IF DOMAIN ds.outcome_names_to_follow_ups[name] = {}
    THEN Result(ds, "ValueError", NoneVal)
    ELSE
    LET prev_index == Max(DOMAIN ds.outcome_names_to_follow_ups[name])
        next_index == prev_index + 1
        n == Len(ds.studies)
        k == FirstOf({i \in 1..n :
                         name \notin DOMAIN ds.studies[i].outcomes_to_follow_ups}, n)
    IN Result(
          [ds EXCEPT
              !.outcome_names_to_follow_ups[name] = DictSet(@, next_index, follow_up_name),
              !.studies = [i \in 1..n |->
                  IF i < k
                  THEN Study_add_follow_up_to_outcome(ds.outcome_objs, ds.studies[i],
                           outcome, follow_up_name, cur_group_names).st
                  ELSE ds.studies[i]]],
          IF k <= n THEN "KeyError" ELSE "none", NoneVal)

Dataset_remove_follow_up_from_outcome(ds, follow_up_name, outcome_name) ==
    IF outcome_name \notin DOMAIN ds.outcome_names_to_follow_ups
    THEN Result(ds, "KeyError", NoneVal)
    ELSE IF ~TwoWayDict_has_value(ds.outcome_names_to_follow_ups[outcome_name],
                                  follow_up_name)
    THEN Result(ds, "KeyError", NoneVal)
    ELSE
    LET time_point == TwoWayDict_get_key(ds.outcome_names_to_follow_ups[outcome_name],
                                         follow_up_name)
        n == Len(ds.studies)
        k == FirstOf({i \in 1..n :
                 Study_remove_follow_up_from_outcome(ds.studies[i], outcome_name,
                                                     follow_up_name).err # "none"}, n)
    IN Result(
          [ds EXCEPT
              !.outcome_names_to_follow_ups[outcome_name] = DictPop(@, time_point),
              !.studies = [i \in 1..n |->
                  IF i < k
                  THEN Study_remove_follow_up_from_outcome(ds.studies[i], outcome_name,
                                                           follow_up_name).st
                  ELSE ds.studies[i]]],
          IF k <= n THEN "KeyError" ELSE "none", NoneVal)

\* sorted(self.studies[0].outcomes_to_follow_ups.keys()), [] without studies.
Dataset_get_outcome_names(ds) ==
    IF Len(ds.studies) = 0 THEN << >>
    ELSE LET keys == DOMAIN ds.studies[1].outcomes_to_follow_ups
         IN CHOOSE s \in Orderings(keys) :
                \A i, j \in DOMAIN s : i < j => PyRank(s[i]) < PyRank(s[j])

\* The loop of add_follow_up from the i-th outcome name on: each call of
\* add_follow_up_to_outcome asks get_group_names anew, which lists the names
\* in any order; the loop ends at the first call that raises. The result is
\* the set of the outcomes the orders allow.
RECURSIVE AddFollowUpLoop(_, _, _, _)
AddFollowUpLoop(ds, names, i, follow_up_name) ==
    IF i > Len(names) THEN {Result(ds, "none", NoneVal)}
    ELSE UNION {
            LET r == Dataset_add_follow_up_to_outcome(ds, names[i], follow_up_name, gn)
            IN IF r.err # "none" THEN {r}
               ELSE AddFollowUpLoop(r.ds, names, i + 1, follow_up_name) :
            gn \in Orderings(Dataset_get_group_names(ds))}

Dataset_add_follow_up(ds, follow_up_name) ==
    AddFollowUpLoop(ds, Dataset_get_outcome_names(ds), 1, follow_up_name)

RECURSIVE RemoveFollowUpLoop(_, _, _, _)
RemoveFollowUpLoop(ds, names, i, follow_up_name) ==
    IF i > Len(names) THEN Result(ds, "none", NoneVal)
    ELSE LET r == Dataset_remove_follow_up_from_outcome(ds, follow_up_name, names[i])
         IN IF r.err # "none" THEN r
            ELSE RemoveFollowUpLoop(r.ds, names, i + 1, follow_up_name)

Dataset_remove_follow_up(ds, follow_up_name) ==
    RemoveFollowUpLoop(ds, Dataset_get_outcome_names(ds), 1, follow_up_name)

Dataset_change_follow_up_name(ds, outcome, old_name, new_name) ==
    IF new_name \in Dataset_get_follow_up_names_for_outcome(ds, outcome)
    THEN Result(ds, "Exception", NoneVal)
    ELSE
    LET n == Len(ds.studies)
        k == FirstOf({i \in 1..n :
                 \/ outcome \notin DOMAIN ds.studies[i].outcomes_to_follow_ups
                 \/ old_name \notin DOMAIN ds.studies[i].outcomes_to_follow_ups[outcome]}, n)
        moved == [i \in 1..n |->
                  IF i < k
                  THEN [ds.studies[i] EXCEPT !.outcomes_to_follow_ups[outcome] =
                           DictSet(DictPop(@, old_name), new_name, @[old_name])]
                  ELSE ds.studies[i]]
        o2f == ds.outcome_names_to_follow_ups
    IN IF k <= n THEN Result([ds EXCEPT !.studies = moved], "KeyError", NoneVal)
       ELSE IF outcome \notin DOMAIN o2f \/ ~TwoWayDict_has_value(o2f[outcome], old_name)
       THEN Result([ds EXCEPT !.studies = moved], "KeyError", NoneVal)
       ELSE Result(
               [ds EXCEPT
                   !.studies = moved,
                   !.outcome_names_to_follow_ups[outcome] =
                       DictSet(@, TwoWayDict_get_key(@, old_name), new_name)],
               "none", NoneVal)

-----------------------------------------------------------------------------
(* Dataset: treatment groups and the network *)

\* The units of st on which rename_group(old, ...) / remove_group(old) raises.
LacksGroup(st, group_name) ==
    {p \in UnitsOf(st) : group_name \notin DOMAIN UnitAt(st, p).tx_groups}

\* The units a loop over the units of st in the order ord has handled when
\* it stops at the first unit of the set bad (all of them when none is bad).
Handled(ord, bad) ==
    LET j == FirstOf({i \in 1..Len(ord) : ord[i] \in bad}, Len(ord))
    IN {ord[i] : i \in 1..(j - 1)}

RenameIn(st, done, old_group_name, new_group_name) ==
    [st EXCEPT !.outcomes_to_follow_ups =
        [o \in DOMAIN st.outcomes_to_follow_ups |->
            [f \in DOMAIN st.outcomes_to_follow_ups[o] |->
                IF <<o, f>> \in done
                THEN MetaAnalyticUnit_rename_group(UnitAt(st, <<o, f>>),
                                                   old_group_name, new_group_name)
                ELSE UnitAt(st, <<o, f>>)]]]

\* A change_group_name that tests only the first half of the condition.
OneOfOutcomeAndFollowUp_first_half(outcome, follow_up) ==
    outcome = NoneVal /\ follow_up # NoneVal

\* (outcome is None and follow_up is not None) or
\* (follow_up is None and outcome is not None)
OneOfOutcomeAndFollowUp(outcome, follow_up) ==
    (outcome = NoneVal /\ follow_up # NoneVal) \/ (follow_up = NoneVal /\ outcome # NoneVal)

\* ord is the order in which the units of the study that raises are visited.
Dataset_change_group_name(ds, old_group_name, new_group_name, outcome, follow_up, ord) ==
    IF OneOfOutcomeAndFollowUp(outcome, follow_up)
    THEN Result(ds, "Exception", NoneVal)
    ELSE
    LET n == Len(ds.studies) IN
    IF outcome = NoneVal /\ follow_up = NoneVal
    THEN
        LET k == FirstOf({i \in 1..n : LacksGroup(ds.studies[i], old_group_name) # {}}, n)
        IN Result(
              [ds EXCEPT !.studies = [i \in 1..n |->
                  IF i < k
                  THEN RenameIn(ds.studies[i], UnitsOf(ds.studies[i]),
                                old_group_name, new_group_name)
                  ELSE IF i = k
                  THEN RenameIn(ds.studies[i],
                                Handled(ord, LacksGroup(ds.studies[i], old_group_name)),
                                old_group_name, new_group_name)
                  ELSE ds.studies[i]]],
              IF k <= n THEN "KeyError" ELSE "none", NoneVal)
    ELSE
        LET k == FirstOf({i \in 1..n :
                     \/ <<outcome, follow_up>> \notin UnitsOf(ds.studies[i])
                     \/ <<outcome, follow_up>> \in LacksGroup(ds.studies[i], old_group_name)},
                         n)
        IN Result(
              [ds EXCEPT !.studies = [i \in 1..n |->
                  IF i < k
                  THEN RenameIn(ds.studies[i], {<<outcome, follow_up>>},
                                old_group_name, new_group_name)
                  ELSE ds.studies[i]]],
              IF k <= n THEN "KeyError" ELSE "none", NoneVal)

RemoveIn(st, done, group_name) ==
    [st EXCEPT !.outcomes_to_follow_ups =
        [o \in DOMAIN st.outcomes_to_follow_ups |->
            [f \in DOMAIN st.outcomes_to_follow_ups[o] |->
                IF <<o, f>> \in done
                THEN MetaAnalyticUnit_remove_group(UnitAt(st, <<o, f>>), group_name)
                ELSE UnitAt(st, <<o, f>>)]]]

Dataset_remove_group(ds, group_name, ord) ==
    LET n == Len(ds.studies)
        k == FirstOf({i \in 1..n : LacksGroup(ds.studies[i], group_name) # {}}, n)
    IN Result(
          [ds EXCEPT !.studies = [i \in 1..n |->
              IF i < k
              THEN RemoveIn(ds.studies[i], UnitsOf(ds.studies[i]), group_name)
              ELSE IF i = k
              THEN RemoveIn(ds.studies[i],
                            Handled(ord, LacksGroup(ds.studies[i], group_name)),
                            group_name)
              ELSE ds.studies[i]]],
          IF k <= n THEN "KeyError" ELSE "none", NoneVal)

\* study = self.studies[0] raises IndexError on a dataset without studies;
\* the loop is that of remove_group.
Dataset_delete_group(ds, group_name, ord) ==
    IF Len(ds.studies) = 0 THEN Result(ds, "IndexError", NoneVal)
    ELSE Dataset_remove_group(ds, group_name, ord)

AddIn(st, done, group_name) ==
    [st EXCEPT !.outcomes_to_follow_ups =
        [o \in DOMAIN st.outcomes_to_follow_ups |->
            [f \in DOMAIN st.outcomes_to_follow_ups[o] |->
                IF <<o, f>> \in done
                THEN MetaAnalyticUnit_add_group(UnitAt(st, <<o, f>>), group_name,
                         BlankRow(UnitAt(st, <<o, f>>).raw_data_length))
                ELSE UnitAt(st, <<o, f>>)]]]

Dataset_add_group(ds, group_name, outcome_name, follow_up_name) ==
    LET n == Len(ds.studies)
        k == FirstOf({i \in 1..n :
                 \/ outcome_name \notin DOMAIN ds.studies[i].outcomes_to_follow_ups
                 \/ /\ follow_up_name # NoneVal
                    /\ <<outcome_name, follow_up_name>> \notin UnitsOf(ds.studies[i])}, n)
    IN Result(
          [ds EXCEPT !.studies = [i \in 1..n |->
              IF i < k
              THEN AddIn(ds.studies[i],
                         IF follow_up_name = NoneVal
                         THEN {p \in UnitsOf(ds.studies[i]) : p[1] = outcome_name}
                         ELSE {<<outcome_name, follow_up_name>>},
                         group_name)
              ELSE ds.studies[i]]],
          IF k <= n THEN "KeyError" ELSE "none", NoneVal)

\* if "" in ma_unit.tx_groups[group].raw_data: return False
Dataset_ma_unit_has_edge_between_groups(ma_unit, groups) ==
    \A i \in 1..Len(groups) :
        ~("" \in Range(ma_unit.tx_groups[groups[i]].raw_data))

\* for g1 in group_names: for g2 in [group for group in group_names if group != g1]
\* as the list of the pairs (g1, g2) in the order they are visited.
GroupPairs(group_names) ==
    LET n == Len(group_names)
    IN [q \in 1..(n * (n - 1)) |->
            LET a == ((q - 1) \div (n - 1)) + 1
                r == ((q - 1) % (n - 1)) + 1
                b == IF r < a THEN r ELSE r + 1
            IN <<group_names[a], group_names[b]>>]

RECURSIVE NetworkOfUnit(_, _, _, _)
NetworkOfUnit(ma_unit, pairs, j, adjacency_list) ==
    IF j > Len(pairs) THEN adjacency_list
    ELSE LET g1 == pairs[j][1]
             g2 == pairs[j][2]
             hit == /\ Dataset_ma_unit_has_edge_between_groups(ma_unit, <<g1, g2>>)
                    /\ ~(<<g1, g2>> \in Range(adjacency_list))
                    /\ ~(<<g2, g1>> \in Range(adjacency_list))
         IN NetworkOfUnit(ma_unit, pairs, j + 1,
                          IF hit THEN Append(adjacency_list, <<g1, g2>>)
                          ELSE adjacency_list)

RECURSIVE NetworkOfStudies(_, _, _, _, _)
NetworkOfStudies(stds, unit_at, orders, i, adjacency_list) ==
    IF i > Len(stds) THEN adjacency_list
    ELSE NetworkOfStudies(stds, unit_at, orders, i + 1,
            NetworkOfUnit(UnitAt(stds[i], unit_at), GroupPairs(orders[i]), 1,
                          adjacency_list))

\* orders[i] is ma_unit.get_group_names() for study i: the keys of tx_groups
\* in the order the dict yields them.  The result is (nodes, edges); the
\* nodes, list(set(node_list)), are given as a set.
Dataset_get_network(ds, outcome, time_point, orders) ==
    LET n == Len(ds.studies)
        k == FirstOf({i \in 1..n : <<outcome, time_point>> \notin UnitsOf(ds.studies[i])}, n)
    IN IF k <= n THEN Result(ds, "KeyError", NoneVal)
       ELSE Result(ds, "none",
               [nodes |-> UNION {Range(orders[i]) : i \in 1..n},
                adjacency_list |->
                    NetworkOfStudies(ds.studies, <<outcome, time_point>>, orders, 1, << >>)])

-----------------------------------------------------------------------------
(* Dataset: the comparator for sorting studies *)

Dataset_both_empty(a, b) == a \in EMPTY_VALS /\ b \in EMPTY_VALS

\* A _cmp_wrapper that does not flip the sign when reverse is set.
Dataset_cmp_wrapper_no_flip(study_a_val, study_b_val, reverse) ==
    IF study_a_val \in EMPTY_VALS THEN 1
    ELSE IF study_b_val \in EMPTY_VALS THEN -1
    ELSE cmp(study_a_val, study_b_val)

Dataset_cmp_wrapper(study_a_val, study_b_val, reverse) ==
    LET flip_sign == IF reverse THEN -1 ELSE 1 IN
    IF study_a_val \in EMPTY_VALS THEN flip_sign * 1
    ELSE IF study_b_val \in EMPTY_VALS THEN flip_sign * (-1)
    ELSE cmp(study_a_val, study_b_val)

Dataset_meta_cmp_wrapper(study_a, study_b, study_a_val, study_b_val, reverse) ==
    IF Dataset_both_empty(study_a_val, study_b_val)
    THEN Dataset_cmp_wrapper(study_a.name, study_b.name, reverse)
    ELSE Dataset_cmp_wrapper(study_a_val, study_b_val, reverse)

\* The comparator cmp_studies(compare_by, reverse) returns, applied to two studies.
Dataset_cmp_studies(compare_by, reverse, study_a, study_b) ==
    IF compare_by = "name"
    THEN Dataset_meta_cmp_wrapper(study_a, study_b, study_a.name, study_b.name, reverse)
    ELSE IF compare_by = "year"
    THEN Dataset_meta_cmp_wrapper(study_a, study_b, study_a.year, study_b.year, reverse)
    ELSE Dataset_meta_cmp_wrapper(study_a, study_b,
                                  study_a.covariate_dict[compare_by],
                                  study_b.covariate_dict[compare_by], reverse)

\* list.sort(cmp=cmp_studies(compare_by, reverse), reverse=reverse) as CPython
\* runs it on a list of fewer than 64 elements: reverse the list, take the
\* run the list starts with (turned round when it descends), insert the rest
\* by binary search, reverse the list again.  x < y is cmp(x, y) < 0.
IsLess(compare_by, reverse, x, y) == Dataset_cmp_studies(compare_by, reverse, x, y) < 0

SeqReverse(l) == [j \in 1..Len(l) |-> l[Len(l) + 1 - j]]

RECURSIVE RunEnd(_, _, _, _, _)
RunEnd(l, k, descending, compare_by, reverse) ==
    IF k > Len(l) THEN k - 1
    ELSE IF IsLess(compare_by, reverse, l[k], l[k - 1]) = descending
         THEN RunEnd(l, k + 1, descending, compare_by, reverse)
         ELSE k - 1

RECURSIVE BinarySearch(_, _, _, _, _, _)
BinarySearch(l, pivot, lo, hi, compare_by, reverse) ==
    IF lo >= hi THEN lo
    ELSE LET mid == lo + ((hi - lo) \div 2)
         IN IF IsLess(compare_by, reverse, pivot, l[mid + 1])
            THEN BinarySearch(l, pivot, lo, mid, compare_by, reverse)
            ELSE BinarySearch(l, pivot, mid + 1, hi, compare_by, reverse)

RECURSIVE BinarySort(_, _, _, _)
BinarySort(l, start, compare_by, reverse) ==
    IF start > Len(l) THEN l
    ELSE LET at == BinarySearch(l, l[start], 0, start - 1, compare_by, reverse)
             moved == [j \in 1..Len(l) |->
                          IF j <= at THEN l[j]
                          ELSE IF j = at + 1 THEN l[start]
                          ELSE IF j <= start THEN l[j - 1]
                          ELSE l[j]]
         IN BinarySort(moved, start + 1, compare_by, reverse)

SortStudies(l, compare_by, reverse) ==
    LET a == IF reverse THEN SeqReverse(l) ELSE l
        descending == Len(a) > 1 /\ IsLess(compare_by, reverse, a[2], a[1])
        n == IF Len(a) <= 1 THEN Len(a) ELSE RunEnd(a, 3, descending, compare_by, reverse)
        b == IF descending
             THEN [j \in 1..Len(a) |-> IF j <= n THEN a[n + 1 - j] ELSE a[j]]
             ELSE a
        c == BinarySort(b, n + 1, compare_by, reverse)
    IN IF reverse THEN SeqReverse(c) ELSE c

-----------------------------------------------------------------------------
(* The state machine: one action per call on the dataset *)

Cur == Dataset(studies, outcome_names_to_follow_ups, covariates, outcome_objs)

\* The Outcome objects the caller has constructed.
Outcomes ==
    [a \in ObjAddrs |->
        IF a = "@2" THEN [name |-> "o2", data_type |-> CONTINUOUS]
        ELSE [name |-> "o1", data_type |-> BINARY]]

\* Dataset(): no studies, no outcomes, no covariates.
EmptyDataset == Dataset(<< >>, EmptyDict, << >>, Outcomes)

Start(ds) ==
    /\ studies = ds.studies
    /\ outcome_names_to_follow_ups = ds.outcome_names_to_follow_ups
    /\ covariates = ds.covariates
    /\ outcome_objs = ds.outcome_objs
    /\ op = [name |-> "init"]
    /\ err = "none"
    /\ ret = NoneVal
    /\ pre = ds
    /\ clean = TRUE
    /\ steps = 0

Do(call, res) ==
    /\ steps < MaxSteps
    /\ steps' = steps + 1
    /\ pre' = Cur
    /\ op' = call
    /\ studies' = res.ds.studies
    /\ outcome_names_to_follow_ups' = res.ds.outcome_names_to_follow_ups
    /\ covariates' = res.ds.covariates
    /\ outcome_objs' = res.ds.outcome_objs
    /\ err' = res.err
    /\ ret' = res.ret
    /\ clean' = (clean /\ res.err = "none")

\* A method of the Study object studies[i], called directly.
OnStudy(ds, i, r) == Result([ds EXCEPT !.studies[i] = r.st], r.err, NoneVal)

CurGroupNames == Orderings(Dataset_get_group_names(Cur))

AddStudy ==
    \E id \in StudyIds :
        /\ Len(studies) < MaxStudies
        /\ Do([name |-> "add_study", id |-> id],
              Dataset_add_study(Cur, Study(id, StudyName(id), NoneVal)))

RemoveStudy ==
    \E id \in StudyIds :
        Do([name |-> "remove_study", id |-> id], Dataset_remove_study(Cur, id))

AddOutcome ==
    \E outcome \in ObjAddrs, gn \in CurGroupNames :
        Do([name |-> "add_outcome", outcome |-> outcome],
           Dataset_add_outcome(Cur, outcome, gn))

RemoveOutcome ==
    \E o \in OutcomeNames :
        Do([name |-> "remove_outcome", outcome_name |-> o],
           Dataset_remove_outcome(Cur, o))

ChangeOutcomeName ==
    \E old \in OutcomeNames, new \in OutcomeNames :
        Do([name |-> "change_outcome_name", old |-> old, new |-> new],
           Dataset_change_outcome_name(Cur, old, new))

\* The follow-up index is capped at MaxIndex.
AddFollowUpToOutcome ==
    \E o \in OutcomeNames, f \in FollowUpNames, gn \in CurGroupNames :
        /\ \A k \in (IF o \in DOMAIN outcome_names_to_follow_ups
                     THEN DOMAIN outcome_names_to_follow_ups[o] ELSE {}) : k < MaxIndex
        /\ Do([name |-> "add_follow_up_to_outcome", outcome_name |-> o,
               follow_up_name |-> f],
              Dataset_add_follow_up_to_outcome(Cur, o, f, gn))

RemoveFollowUpFromOutcome ==
    \E o \in OutcomeNames, f \in FollowUpNames :
        Do([name |-> "remove_follow_up_from_outcome", outcome_name |-> o,
            follow_up_name |-> f],
           Dataset_remove_follow_up_from_outcome(Cur, f, o))

ChangeFollowUpName ==
    \E o \in OutcomeNames, old \in FollowUpNames, new \in FollowUpNames :
        Do([name |-> "change_follow_up_name", outcome |-> o, old |-> old, new |-> new],
           Dataset_change_follow_up_name(Cur, o, old, new))

StudyAddOutcome ==
    \E i \in 1..Len(studies), outcome \in ObjAddrs, f \in FollowUpNames :
        Do([name |-> "Study.add_outcome", study |-> i, outcome |-> outcome,
            follow_up_name |-> f],
           OnStudy(Cur, i,
                   Study_add_outcome(outcome_objs, studies[i], outcome, f, << >>)))

StudyAddMaUnit ==
    \E i \in 1..Len(studies), outcome \in ObjAddrs, f \in FollowUpNames :
        Do([name |-> "Study.add_ma_unit", study |-> i, outcome |-> outcome,
            follow_up |-> f],
           OnStudy(Cur, i,
                   Study_add_ma_unit(outcome_objs, studies[i],
                                     MetaAnalyticUnit(outcome_objs, outcome, << >>), f)))

\* The visiting orders of the units of the first study in which some unit
\* lacks the group: the study in which the loop over the units stops.
StopOrders(g) ==
    LET bad == {i \in 1..Len(studies) : LacksGroup(studies[i], g) # {}}
    IN IF bad = {} THEN {<< >>} ELSE UnitOrders(studies[Min(bad)])

RemoveGroup ==
    \E g \in GroupNames : \E ord \in StopOrders(g) :
        Do([name |-> "remove_group", group_name |-> g],
           Dataset_remove_group(Cur, g, ord))

DeleteGroup ==
    \E g \in GroupNames : \E ord \in StopOrders(g) :
        Do([name |-> "delete_group", group_name |-> g],
           Dataset_delete_group(Cur, g, ord))

\* The follow-up indices are capped at MaxIndex.
AddFollowUp ==
    \E f \in FollowUpNames : \E res \in Dataset_add_follow_up(Cur, f) :
        /\ \A o \in DOMAIN outcome_names_to_follow_ups :
              \A k \in DOMAIN outcome_names_to_follow_ups[o] : k < MaxIndex
        /\ Do([name |-> "add_follow_up", follow_up_name |-> f], res)

RemoveFollowUp ==
    \E f \in FollowUpNames :
        Do([name |-> "remove_follow_up", follow_up_name |-> f],
           Dataset_remove_follow_up(Cur, f))

StudyRemoveOutcome ==
    \E i \in 1..Len(studies), o \in OutcomeNames :
        Do([name |-> "Study.remove_outcome", study |-> i, outcome_name |-> o],
           OnStudy(Cur, i, Study_remove_outcome(outcome_objs, studies[i], o)))

StudyAddOutcomeAtFollowUp ==
    \E i \in 1..Len(studies), outcome \in ObjAddrs, f \in FollowUpNames :
        Do([name |-> "Study.add_outcome_at_follow_up", study |-> i,
            outcome |-> outcome, follow_up |-> f],
           OnStudy(Cur, i,
                   Study_add_outcome_at_follow_up(outcome_objs, studies[i], outcome, f)))

StudyAddFollowUpToOutcome ==
    \E i \in 1..Len(studies), outcome \in ObjAddrs, f \in FollowUpNames :
        \E gn \in {<< >>} \cup CurGroupNames :
            Do([name |-> "Study.add_follow_up_to_outcome", study |-> i,
                outcome |-> outcome, follow_up_name |-> f, group_names |-> gn],
               OnStudy(Cur, i,
                       Study_add_follow_up_to_outcome(outcome_objs, studies[i],
                                                      outcome, f, gn)))

StudyRemoveFollowUpFromOutcome ==
    \E i \in 1..Len(studies), o \in OutcomeNames, f \in FollowUpNames :
        Do([name |-> "Study.remove_follow_up_from_outcome", study |-> i,
            outcome |-> o, follow_up_name |-> f],
           OnStudy(Cur, i, Study_remove_follow_up_from_outcome(studies[i], o, f)))

Init == Start(EmptyDataset)

Next ==
    \/ AddStudy
    \/ RemoveStudy
    \/ AddOutcome
    \/ RemoveOutcome
    \/ ChangeOutcomeName
    \/ AddFollowUpToOutcome
    \/ RemoveFollowUpFromOutcome
    \/ ChangeFollowUpName
    \/ StudyAddOutcome
    \/ StudyAddMaUnit
    \/ RemoveGroup
    \/ DeleteGroup
    \/ AddFollowUp
    \/ RemoveFollowUp
    \/ StudyRemoveOutcome
    \/ StudyAddOutcomeAtFollowUp
    \/ StudyAddFollowUpToOutcome
    \/ StudyRemoveFollowUpFromOutcome

Spec == Init /\ [][Next]_vars

-----------------------------------------------------------------------------
(* Properties of the outcome / follow-up bookkeeping, checked under Spec *)

NameOf(outcome) == outcome_objs[outcome].name

\* C2: add_outcome(o) immediately followed by remove_outcome(o.name), both
\* completing, restores the dataset's outcome-name-to-follow-ups mapping and
\* every study's outcome list and outcome-to-follow-up mapping to what they
\* were before the add.
C2_AddThenRemoveRestores ==
    [][(/\ op.name = "add_outcome"
        /\ err = "none"
        /\ op'.name = "remove_outcome"
        /\ op'.outcome_name = NameOf(op.outcome)
        /\ err' = "none")
       => /\ outcome_names_to_follow_ups' = pre.outcome_names_to_follow_ups
          /\ Len(studies') = Len(pre.studies)
          /\ \A i \in 1..Len(pre.studies) :
                /\ studies'[i].outcomes = pre.studies[i].outcomes
                /\ studies'[i].outcomes_to_follow_ups =
                       pre.studies[i].outcomes_to_follow_ups]_vars

\* C5: add_follow_up_to_outcome(outcome, name) on an outcome of the dataset
\* records name under the index one greater than the largest index recorded
\* for that outcome, keeps the other indices, and afterwards name is in
\* get_follow_up_names_for_outcome(outcome).
C5_NextFollowUpIndex ==
    (/\ op.name = "add_follow_up_to_outcome"
     /\ op.outcome_name \in DOMAIN pre.outcome_names_to_follow_ups
     /\ DOMAIN pre.outcome_names_to_follow_ups[op.outcome_name] # {})
    => LET old == pre.outcome_names_to_follow_ups[op.outcome_name]
           next_index == Max(DOMAIN old) + 1
       IN /\ err = "none"
          /\ op.outcome_name \in DOMAIN outcome_names_to_follow_ups
          /\ outcome_names_to_follow_ups[op.outcome_name] =
                 DictSet(old, next_index, op.follow_up_name)
          /\ op.follow_up_name \in
                 Dataset_get_follow_up_names_for_outcome(Cur, op.outcome_name)

\* C7: adding an outcome whose name is already present raises the
\* duplicate-entity Exception: Study.add_outcome on a study that has the
\* name, Dataset.add_outcome on a dataset whose outcome mapping has the name.
C7_DuplicateOutcomeRaises ==
    /\ (/\ op.name = "Study.add_outcome"
        /\ pre.outcome_objs[op.outcome].name \in
               DOMAIN pre.studies[op.study].outcomes_to_follow_ups)
       => err = "Exception"
    /\ (/\ op.name = "add_outcome"
        /\ pre.outcome_objs[op.outcome].name \in DOMAIN pre.outcome_names_to_follow_ups)
       => err = "Exception"

\* C8: removing what does not exist raises the lookup error (KeyError):
\* remove_outcome with an unknown outcome name, remove_follow_up_from_outcome
\* with an unknown follow-up name, remove_group with a group no unit holds.
C8_RemoveMissingRaises ==
    /\ (/\ op.name = "remove_outcome"
        /\ op.outcome_name \notin DOMAIN pre.outcome_names_to_follow_ups)
       => err = "KeyError"
    /\ (/\ op.name = "remove_follow_up_from_outcome"
        /\ \A o \in DOMAIN pre.outcome_names_to_follow_ups :
              ~TwoWayDict_has_value(pre.outcome_names_to_follow_ups[o], op.follow_up_name)
        /\ op.follow_up_name \notin
               Dataset_get_follow_up_names_for_outcome(pre, op.outcome_name))
       => err = "KeyError"
    /\ (/\ op.name = "remove_group"
        /\ op.group_name \notin Dataset_get_group_names(pre))
       => err = "KeyError"

\* C9: in every study, every outcome of the outcome-to-follow-up mapping has
\* at least one follow-up entry.
C9_OutcomeHasFollowUp ==
    \A i \in 1..Len(studies) :
        \A o \in DOMAIN studies[i].outcomes_to_follow_ups :
            DOMAIN studies[i].outcomes_to_follow_ups[o] # {}

\* C10: as long as no call has raised, in every study the names of the
\* outcome objects of the outcome list are exactly the keys of the
\* outcome-to-follow-up mapping, each name once.
C10_OutcomeListInSync ==
    clean =>
        \A i \in 1..Len(studies) :
            LET names == Study_get_outcome_names(outcome_objs, studies[i])
            IN /\ Range(names) = DOMAIN studies[i].outcomes_to_follow_ups
               /\ \A j, k \in 1..Len(names) : names[j] = names[k] => j = k

-----------------------------------------------------------------------------
(* Treatment groups: the datasets the group operations start from, and the *)
(* calls that add, remove and rename groups.                               *)

MaxGroupSteps == 2

RECURSIVE WithStudies(_, _)
WithStudies(ds, n) ==
    IF n = 0 THEN ds
    ELSE Dataset_add_study(WithStudies(ds, n - 1),
                           Study(n, StudyName(n), NoneVal)).ds

\* The first cell of a filled row tells the groups apart: [[5, 50], [3, 50]].
FilledRow(g, n) ==
    [x \in 1..n |-> IF x > 1 THEN "50" ELSE IF g = "tx A" THEN "5" ELSE "3"]

\* set_raw_data_for_group on every group of every unit.
Filled(ds) ==
    [ds EXCEPT !.studies = [i \in 1..Len(ds.studies) |->
        [ds.studies[i] EXCEPT !.outcomes_to_follow_ups =
            [o \in DOMAIN ds.studies[i].outcomes_to_follow_ups |->
                [f \in DOMAIN ds.studies[i].outcomes_to_follow_ups[o] |->
                    LET u == UnitAt(ds.studies[i], <<o, f>>)
                    IN [u EXCEPT !.tx_groups = [g \in DOMAIN u.tx_groups |->
                           [u.tx_groups[g] EXCEPT !.raw_data =
                               FilledRow(g, u.raw_data_length)]]]]]]]]

\* Datasets built by add_study, add_outcome, add_follow_up_to_outcome and
\* set_raw_data_for_group from the empty dataset. add_outcome and
\* add_follow_up_to_outcome hand the new units the names get_group_names
\* lists, in the order the interpreter's set gives them: either order.
BuiltDatasets ==
    LET d1(n) == Dataset_add_outcome(WithStudies(EmptyDataset, n), "@1", << >>).ds
        d2(n) == {Dataset_add_outcome(d1(n), "@2", gn).ds :
                     gn \in Orderings(Dataset_get_group_names(d1(n)))}
        d3(d) == IF Len(d.studies) = 0 THEN {}
                 ELSE {Dataset_add_follow_up_to_outcome(d, "o1", "f1", gn).ds :
                          gn \in Orderings(Dataset_get_group_names(d))}
        outcomes == UNION {{d1(n)} \cup d2(n) : n \in 0..MaxStudies}
        blank == outcomes \cup UNION {d3(d) : d \in outcomes}
    IN blank \cup {Filled(d) : d \in blank}

InitGroups == \E ds \in BuiltDatasets : Start(ds)

DoGroup(call, res) == steps < MaxGroupSteps /\ Do(call, res)

AddGroup ==
    \E g \in GroupNames, o \in OutcomeNames, f \in FollowUpNames \cup {NoneVal} :
        DoGroup([name |-> "add_group", group_name |-> g, outcome_name |-> o,
                 follow_up_name |-> f],
                Dataset_add_group(Cur, g, o, f))

RemoveGroupFromUnits ==
    \E g \in GroupNames : \E ord \in StopOrders(g) :
        DoGroup([name |-> "remove_group", group_name |-> g],
                Dataset_remove_group(Cur, g, ord))

\* The order of the units matters only to the call that walks all of them.
ChangeGroupName ==
    \E old \in GroupNames, new \in GroupNames :
        \/ \E ord \in StopOrders(old) :
              DoGroup([name |-> "change_group_name", old_group_name |-> old,
                       new_group_name |-> new, outcome |-> NoneVal, follow_up |-> NoneVal],
                      Dataset_change_group_name(Cur, old, new, NoneVal, NoneVal, ord))
        \/ \E o \in OutcomeNames \cup {NoneVal}, f \in FollowUpNames \cup {NoneVal} :
              /\ o # NoneVal \/ f # NoneVal
              /\ DoGroup([name |-> "change_group_name", old_group_name |-> old,
                          new_group_name |-> new, outcome |-> o, follow_up |-> f],
                         Dataset_change_group_name(Cur, old, new, o, f, << >>))

NextGroups ==
    \/ AddGroup
    \/ RemoveGroupFromUnits
    \/ ChangeGroupName

SpecGroups == InitGroups /\ [][NextGroups]_vars

\* C1: change_group_name(old, new), old # new, with outcome and follow_up
\* both omitted: every unit of every study that held old holds new and no
\* longer old, with under new the raw data that was under old; with outcome
\* and follow_up both given, the same for that unit in every study.
C1_RenameReflected ==
    (/\ op.name = "change_group_name"
     /\ op.old_group_name # op.new_group_name
     /\ ~OneOfOutcomeAndFollowUp(op.outcome, op.follow_up))
    => \A i \in 1..Len(pre.studies) :
          \A p \in UnitsOf(pre.studies[i]) :
              (/\ op.outcome = NoneVal \/ p = <<op.outcome, op.follow_up>>
               /\ op.old_group_name \in DOMAIN UnitAt(pre.studies[i], p).tx_groups)
              => /\ p \in UnitsOf(studies[i])
                 /\ op.new_group_name \in DOMAIN UnitAt(studies[i], p).tx_groups
                 /\ op.old_group_name \notin DOMAIN UnitAt(studies[i], p).tx_groups
                 /\ UnitAt(studies[i], p).tx_groups[op.new_group_name].raw_data =
                        UnitAt(pre.studies[i], p).tx_groups[op.old_group_name].raw_data

\* C6: change_group_name with exactly one of outcome and follow_up given
\* raises the invalid-argument Exception and changes no unit of any study.
C6_OneOfOutcomeFollowUpRaises ==
    (/\ op.name = "change_group_name"
     /\ (op.outcome = NoneVal) # (op.follow_up = NoneVal))
    => /\ err = "Exception"
       /\ studies = pre.studies

\* A call with only the follow-up given, and one with only the outcome given,
\* each on a dataset in which a unit holds the group to rename.
C6_Witness ==
    /\ op.name = "change_group_name"
    /\ op.outcome # NoneVal
    /\ op.follow_up = NoneVal
    /\ op.old_group_name # op.new_group_name
    /\ err = "Exception"
    /\ \E i \in 1..Len(studies) :
          /\ op.outcome \in DOMAIN studies[i].outcomes_to_follow_ups
          /\ \E p \in UnitsOf(studies[i]) :
                op.old_group_name \in DOMAIN UnitAt(studies[i], p).tx_groups

-----------------------------------------------------------------------------
(* The network of an outcome at a follow-up: raw data is entered, groups   *)
(* are added, and get_network is asked for the graph.                      *)

MaxNetworkSteps == 2

\* The rows a caller enters: the first cell is empty ("" or None) or not.
Rows(n) == {[x \in 1..n |-> IF x = 1 THEN c ELSE "50"] : c \in Cells}

InitNetwork ==
    \E ds \in {d \in BuiltDatasets : Len(d.studies) > 0} : Start(ds)

DoNetwork(call, res) == steps < MaxNetworkSteps /\ Do(call, res)

\* ma_unit.set_raw_data_for_group(g, row) on a unit of study i, for a group
\* the unit holds.
SetRawData ==
    \E i \in 1..Len(studies) : \E p \in UnitsOf(studies[i]) :
        \E g \in DOMAIN UnitAt(studies[i], p).tx_groups :
            \E row \in Rows(UnitAt(studies[i], p).raw_data_length) :
                DoNetwork([name |-> "set_raw_data_for_group", study |-> i, unit |-> p,
                           group_name |-> g, raw_data |-> row],
                          Result([Cur EXCEPT
                                     !.studies[i].outcomes_to_follow_ups[p[1]][p[2]] =
                                         MetaAnalyticUnit_set_raw_data_for_group(@, g, row)],
                                 "none", NoneVal))

\* The lists of groups a caller names: the two default groups, or a group
\* with one the unit may not hold.
GroupLists == {<<"tx A", "tx B">>, <<"tx B", "g">>}

\* The rows for them: one row for each group, or one row too few.
RowLists(n) == [1..2 -> Rows(n)] \cup {<<[x \in 1..n |-> "50"]>>}

\* ma_unit.set_raw_data_for_groups(groups, raw_data_list) on a unit of
\* study i.
SetRawDataForGroups ==
    \E i \in 1..Len(studies) : \E p \in UnitsOf(studies[i]) :
        \E groups \in GroupLists :
            \E raw_data_list \in RowLists(UnitAt(studies[i], p).raw_data_length) :
                LET r == MetaAnalyticUnit_set_raw_data_for_groups(
                             UnitAt(studies[i], p), groups, raw_data_list)
                IN DoNetwork([name |-> "set_raw_data_for_groups", study |-> i,
                              unit |-> p, groups |-> groups,
                              raw_data_list |-> raw_data_list],
                             Result([Cur EXCEPT
                                        !.studies[i].outcomes_to_follow_ups[p[1]][p[2]] =
                                            r.unit],
                                    r.err, NoneVal))

AddGroupToOutcome ==
    \E g \in GroupNames \ {"tx A", "tx B"}, o \in OutcomeNames :
        DoNetwork([name |-> "add_group", group_name |-> g, outcome_name |-> o,
                   follow_up_name |-> NoneVal],
                  Dataset_add_group(Cur, g, o, NoneVal))

GroupNamesAt(i, p) ==
    IF p \in UnitsOf(studies[i]) THEN DOMAIN UnitAt(studies[i], p).tx_groups ELSE {}

\* For each study, an order in which its unit's tx_groups yields its keys.
KeyOrders(p) ==
    LET all == UNION {Orderings(GroupNamesAt(i, p)) : i \in 1..Len(studies)}
    IN {f \in [1..Len(studies) -> all] :
           \A i \in 1..Len(studies) : f[i] \in Orderings(GroupNamesAt(i, p))}

GetNetwork ==
    \E o \in OutcomeNames, tp \in FollowUpNames : \E orders \in KeyOrders(<<o, tp>>) :
        DoNetwork([name |-> "get_network", outcome |-> o, time_point |-> tp],
                  Dataset_get_network(Cur, o, tp, orders))

NextNetwork ==
    \/ SetRawData
    \/ SetRawDataForGroups
    \/ AddGroupToOutcome
    \/ GetNetwork

SpecNetwork == InitNetwork /\ [][NextNetwork]_vars

\* A cell is empty when it is one of EMPTY_VALS.
HasEmptyCell(raw_data) == \E x \in DOMAIN raw_data : raw_data[x] \in EMPTY_VALS

\* C3: get_network(outcome, time_point) returns an edge between two distinct
\* groups, as one pair in one orientation only, if and only if some study's
\* unit at that outcome and follow-up holds both groups and neither group's
\* raw data has an empty cell ("" or None).
C3_EdgeIffNoEmptyCell ==
    (op.name = "get_network" /\ err = "none")
    => LET edges == ret.adjacency_list
           p == <<op.outcome, op.time_point>>
       IN /\ \A g1 \in GroupNames : \A g2 \in GroupNames \ {g1} :
                (<<g1, g2>> \in Range(edges) \/ <<g2, g1>> \in Range(edges))
                <=> \E i \in 1..Len(studies) :
                       /\ {g1, g2} \subseteq DOMAIN UnitAt(studies[i], p).tx_groups
                       /\ ~HasEmptyCell(UnitAt(studies[i], p).tx_groups[g1].raw_data)
                       /\ ~HasEmptyCell(UnitAt(studies[i], p).tx_groups[g2].raw_data)
          /\ \A j, k \in 1..Len(edges) :
                /\ edges[j] = edges[k] => j = k
                /\ edges[j] # <<edges[k][2], edges[k][1]>>

-----------------------------------------------------------------------------
(* Sorting the studies by name, year or covariate value *)

MaxSortSteps == 1

SortNames == {"", "a", "b"}
CovValues == {"", NoneVal, "x", "y"}

\* A study as the front end fills it in: a name (possibly still empty), no
\* year, and a value, possibly empty, for the covariate "cov".
SortStudy(id, name, v) ==
    [Study(id, name, NoneVal) EXCEPT !.covariate_dict = DictSet(@, "cov", v)]

SortLists ==
    UNION {{[i \in 1..n |-> SortStudy(i, nm[i], cv[i])] :
               nm \in [1..n -> SortNames], cv \in [1..n -> CovValues]} :
              n \in 0..MaxSortLen}

InitSort ==
    \E l \in SortLists :
        Start(Dataset(l, EmptyDict,
                      <<[name |-> "cov", data_type |-> FACTOR]>>, Outcomes))

Sort ==
    \E compare_by \in {"name", "year", "cov"}, reverse \in BOOLEAN :
        /\ steps < MaxSortSteps
        /\ Do([name |-> "sort", compare_by |-> compare_by, reverse |-> reverse],
              Result([Cur EXCEPT !.studies = SortStudies(@, compare_by, reverse)],
                     "none", NoneVal))

NextSort == Sort

SpecSort == InitSort /\ [][NextSort]_vars

CovOf(st) == st.covariate_dict["cov"]

\* C4: after sorting by a covariate with cmp_studies(compare_by, reverse=r)
\* and the sort's reverse flag r, every study with an empty value ("" or
\* None) comes after every study with a value, and two studies with empty
\* values are in the order of their names: ascending when r is false,
\* descending when r is true.
C4_EmptyLastTiesByName ==
    (op.name = "sort" /\ op.compare_by = "cov")
    => \A i, j \in 1..Len(studies) :
          i < j =>
             /\ ~(CovOf(studies[i]) \in EMPTY_VALS /\ CovOf(studies[j]) \notin EMPTY_VALS)
             /\ Dataset_both_empty(CovOf(studies[i]), CovOf(studies[j]))
                => IF op.reverse
                   THEN cmp(studies[i].name, studies[j].name) >= 0
                   ELSE cmp(studies[i].name, studies[j].name) <= 0

\* C4 as it holds: the name order of two studies with empty values is
\* ascending for r false only between studies that both have a name; a
\* study whose name is empty as well comes after the named ones.
C4_EmptyLastTiesByNonEmptyName ==
    (op.name = "sort" /\ op.compare_by = "cov")
    => \A i, j \in 1..Len(studies) :
          i < j =>
             /\ ~(CovOf(studies[i]) \in EMPTY_VALS /\ CovOf(studies[j]) \notin EMPTY_VALS)
             /\ Dataset_both_empty(CovOf(studies[i]), CovOf(studies[j]))
                => IF op.reverse
                   THEN cmp(studies[i].name, studies[j].name) >= 0
                   ELSE /\ ~(studies[i].name \in EMPTY_VALS /\ studies[j].name \notin EMPTY_VALS)
                        /\ (studies[i].name \notin EMPTY_VALS /\ studies[j].name \notin EMPTY_VALS)
                           => cmp(studies[i].name, studies[j].name) <= 0

\* A reverse sort by covariate that moved studies: a study with a value now
\* precedes one without, and two studies without a value, with different
\* names, follow in descending name order.
C4_Witness ==
    /\ op.name = "sort"
    /\ op.compare_by = "cov"
    /\ op.reverse
    /\ studies # pre.studies
    /\ \E i, j, k \in 1..Len(studies) :
          /\ i < j /\ j < k
          /\ CovOf(studies[i]) \notin EMPTY_VALS
          /\ CovOf(studies[j]) \in EMPTY_VALS
          /\ CovOf(studies[k]) \in EMPTY_VALS
          /\ cmp(studies[j].name, studies[k].name) > 0

-----------------------------------------------------------------------------
(* Adding a group to an outcome: datasets whose studies were given their   *)
(* outcomes one by one (Study.add_outcome) as well as through the dataset. *)

NextAddGroup ==
    \/ AddStudy
    \/ StudyAddOutcome
    \/ AddGroup

SpecAddGroup == InitGroups /\ [][NextAddGroup]_vars

\* The units add_group(group, outcome, follow_up) is to change: every
\* follow-up of the outcome, or the one given.
Scoped(p) ==
    /\ p[1] = op.outcome_name
    /\ op.follow_up_name = NoneVal \/ p[2] = op.follow_up_name

\* C11: add_group(group, outcome) adds the group to the unit of every
\* follow-up of that outcome in every study, with a follow-up given to that
\* outcome's unit at that follow-up in every study, and leaves every other
\* unit as it was.
C11_AddGroupScoped ==
    op.name = "add_group"
    => /\ Len(studies) = Len(pre.studies)
       /\ \A i \in 1..Len(pre.studies) :
             /\ UnitsOf(studies[i]) = UnitsOf(pre.studies[i])
             /\ \A p \in UnitsOf(pre.studies[i]) :
                   IF Scoped(p)
                   THEN op.group_name \in DOMAIN UnitAt(studies[i], p).tx_groups
                   ELSE UnitAt(studies[i], p) = UnitAt(pre.studies[i], p)

-----------------------------------------------------------------------------
(* Covariates: remove_covariate, add_covariate with the values to fill in, *)
(* get_values_for_cov.                                                     *)

MaxCovSteps == 2

\* Covariate(name, data_type): the object, or the Exception raised for a
\* data_type that is neither "Factor" nor "Continuous".
Covariate(name, data_type) ==
    IF data_type \notin {"Factor", "Continuous"}
    THEN [obj |-> NoneVal, err |-> "Exception"]
    ELSE [obj |-> [name |-> name,
                   data_type |-> IF data_type = "Continuous" THEN CONTINUOUS ELSE FACTOR],
          err |-> "none"]

\* Stops with KeyError at the first study that has no entry for the
\* covariate; the list of covariates is changed before the studies are.
Dataset_remove_covariate(ds, covariate) ==
    LET n == Len(ds.studies)
        named == {j \in 1..Len(ds.covariates) : ds.covariates[j].name = covariate.name}
        covs == IF named = {} THEN ds.covariates
                ELSE ListRemove(ds.covariates, ds.covariates[Min(named)])
        k == FirstOf({i \in 1..n : covariate.name \notin DOMAIN ds.studies[i].covariate_dict}, n)
    IN Result(
          [ds EXCEPT !.covariates = covs,
                     !.studies = [i \in 1..n |->
                         IF i < k
                         THEN [ds.studies[i] EXCEPT
                                  !.covariate_dict = DictPop(@, covariate.name)]
                         ELSE ds.studies[i]]],
          IF k <= n THEN "KeyError" ELSE "none", NoneVal)

\* cov_values maps study names to values; the empty mapping stands for None
\* as well as for {}: either way every study gets None.
Dataset_add_covariate(ds, covariate, cov_values) ==
    Result(
       [ds EXCEPT !.covariates = Append(@, covariate),
                  !.studies = [i \in 1..Len(ds.studies) |->
                      [ds.studies[i] EXCEPT !.covariate_dict =
                          DictSet(@, covariate.name,
                                  IF ds.studies[i].name \in DOMAIN cov_values
                                  THEN cov_values[ds.studies[i].name]
                                  ELSE NoneVal)]]],
       "none", NoneVal)

\* cov_d[study.name] = study.covariate_dict[cov_name], study after study: of
\* two studies with one name the later one's value stays.
Dataset_get_values_for_cov(ds, cov_name) ==
    LET n == Len(ds.studies)
        k == FirstOf({i \in 1..n : cov_name \notin DOMAIN ds.studies[i].covariate_dict}, n)
        last(nm) == Max({i \in 1..n : ds.studies[i].name = nm})
    IN IF k <= n THEN Result(ds, "KeyError", NoneVal)
       ELSE Result(ds, "none",
                   [nm \in {ds.studies[i].name : i \in 1..n} |->
                       ds.studies[last(nm)].covariate_dict[cov_name]])

CovNames == {"cov", "w"}

\* Values a caller passes to add_covariate: none, or a value for study "a".
SomeCovValues == {EmptyDict, [nm \in {"a"} |-> "y"]}

DoCov(call, res) == steps < MaxCovSteps /\ Do(call, res)

GetValuesForCov ==
    \E c \in CovNames :
        DoCov([name |-> "get_values_for_cov", covariate |-> c],
              Dataset_get_values_for_cov(Cur, c))

\* The data types a caller names when it constructs a Covariate.
CovTypes == {"Factor", "Continuous", "factor"}

RemoveCovariate ==
    \E c \in CovNames :
        DoCov([name |-> "remove_covariate", covariate |-> c],
              Dataset_remove_covariate(Cur, Covariate(c, "Factor").obj))

\* Covariate(c, data_type) with a data_type the constructor refuses: the
\* Exception reaches the caller and the dataset is not called.
NewCovariate ==
    \E c \in CovNames, t \in CovTypes :
        /\ Covariate(c, t).err # "none"
        /\ DoCov([name |-> "Covariate", covariate |-> c, data_type |-> t],
                 Result(Cur, Covariate(c, t).err, NoneVal))

\* add_covariate(Covariate(c, data_type), cov_values). The redo of a removal
\* passes the values get_values_for_cov(c) gave on the dataset as it was
\* before the removal; the call's record keeps the studies of that dataset.
AddCovariate ==
    \E c \in CovNames, t \in CovTypes :
        /\ Covariate(c, t).err = "none"
        /\ \/ \E cov_values \in SomeCovValues :
                 DoCov([name |-> "add_covariate", covariate |-> c, data_type |-> t,
                        cov_values |-> cov_values, redo |-> FALSE, before |-> << >>],
                       Dataset_add_covariate(Cur, Covariate(c, t).obj, cov_values))
           \/ /\ op.name = "remove_covariate"
              /\ op.covariate = c
              /\ Dataset_get_values_for_cov(pre, c).err = "none"
              /\ DoCov([name |-> "add_covariate", covariate |-> c, data_type |-> t,
                        cov_values |-> Dataset_get_values_for_cov(pre, c).ret,
                        redo |-> TRUE, before |-> pre.studies],
                       Dataset_add_covariate(Cur, Covariate(c, t).obj,
                                             Dataset_get_values_for_cov(pre, c).ret))

NextCov ==
    \/ AddStudy
    \/ NewCovariate
    \/ GetValuesForCov
    \/ RemoveCovariate
    \/ AddCovariate

SpecCov == InitSort /\ [][NextCov]_vars

\* C12: v = get_values_for_cov(c), remove_covariate(c), add_covariate(c, v)
\* leaves every study with the value for c it had before the removal; and
\* add_covariate gives None to a study that has no entry in the values
\* passed.
C12_RedoRestoresValues ==
    op.name = "add_covariate"
    => /\ op.redo
          => /\ Len(studies) = Len(op.before)
             /\ \A i \in 1..Len(op.before) :
                   studies[i].covariate_dict[op.covariate] =
                       op.before[i].covariate_dict[op.covariate]
       /\ \A i \in 1..Len(studies) :
             studies[i].name \notin DOMAIN op.cov_values
             => studies[i].covariate_dict[op.covariate] = NoneVal

-----------------------------------------------------------------------------
(* The groups of one unit: add_group, remove_group and rename_group called *)
(* on a MetaAnalyticUnit of a study, and change_group_name on the dataset. *)

MaxUnitSteps == 3

\* One study, its units filled with raw data.
InitUnit ==
    \E ds \in {d \in BuiltDatasets : Len(d.studies) = 1 /\ Filled(d) = d} : Start(ds)

DoUnit(call, res) == steps < MaxUnitSteps /\ Do(call, res)

\* The dataset with unit p of study i replaced by u.
OnUnit(i, p, u) ==
    [Cur EXCEPT !.studies[i].outcomes_to_follow_ups[p[1]][p[2]] = u]

UnitAddGroup ==
    \E i \in 1..Len(studies) : \E p \in UnitsOf(studies[i]) : \E g \in GroupNames :
        DoUnit([name |-> "MetaAnalyticUnit.add_group", study |-> i, unit |-> p,
                group_name |-> g],
               Result(OnUnit(i, p,
                          MetaAnalyticUnit_add_group(UnitAt(studies[i], p), g,
                              BlankRow(UnitAt(studies[i], p).raw_data_length))),
                      "none", NoneVal))

\* tx_groups.pop(name) raises KeyError for a name the unit does not hold.
UnitRemoveGroup ==
    \E i \in 1..Len(studies) : \E p \in UnitsOf(studies[i]) : \E g \in GroupNames :
        DoUnit([name |-> "MetaAnalyticUnit.remove_group", study |-> i, unit |-> p,
                group_name |-> g],
               IF g \in DOMAIN UnitAt(studies[i], p).tx_groups
               THEN Result(OnUnit(i, p,
                               MetaAnalyticUnit_remove_group(UnitAt(studies[i], p), g)),
                           "none", NoneVal)
               ELSE Result(Cur, "KeyError", NoneVal))

\* tx_groups[old_name] raises KeyError before anything is written.
UnitRenameGroup ==
    \E i \in 1..Len(studies) : \E p \in UnitsOf(studies[i]) :
        \E old \in GroupNames, new \in GroupNames :
            DoUnit([name |-> "MetaAnalyticUnit.rename_group", study |-> i, unit |-> p,
                    old_name |-> old, new_name |-> new],
                   IF old \in DOMAIN UnitAt(studies[i], p).tx_groups
                   THEN Result(OnUnit(i, p,
                                   MetaAnalyticUnit_rename_group(UnitAt(studies[i], p),
                                                                 old, new)),
                               "none", NoneVal)
                   ELSE Result(Cur, "KeyError", NoneVal))

NextUnit ==
    \/ UnitAddGroup
    \/ UnitRemoveGroup
    \/ UnitRenameGroup
    \/ ChangeGroupName

SpecUnit == InitUnit /\ [][NextUnit]_vars

GroupIds(unit) == {unit.tx_groups[g].id : g \in DOMAIN unit.tx_groups}

\* The unit the last call was made on, before and after the call.
UnitBefore == UnitAt(pre.studies[op.study], op.unit)
UnitAfter == UnitAt(studies[op.study], op.unit)

\* C13: add_group gives the new group the id 0 in a unit without groups and
\* otherwise one more than the largest id in the unit; and after any calls
\* of add_group, remove_group and rename_group no two groups held by a unit
\* have the same id.
C13_GroupIdsDistinct ==
    /\ op.name = "MetaAnalyticUnit.add_group"
       => UnitAfter.tx_groups[op.group_name].id =
             IF DOMAIN UnitBefore.tx_groups = {} THEN 0
             ELSE Max(GroupIds(UnitBefore)) + 1
    /\ \A i \in 1..Len(studies) : \A p \in UnitsOf(studies[i]) :
          \A g1 \in DOMAIN UnitAt(studies[i], p).tx_groups :
              \A g2 \in DOMAIN UnitAt(studies[i], p).tx_groups \ {g1} :
                  UnitAt(studies[i], p).tx_groups[g1].id #
                      UnitAt(studies[i], p).tx_groups[g2].id

\* A group added, under a name new to the unit, to a unit from which the
\* group with the id 0 was removed: the count of the groups and the largest
\* id differ there.
C13_Witness ==
    /\ op.name = "MetaAnalyticUnit.add_group"
    /\ op.group_name \notin DOMAIN UnitBefore.tx_groups
    /\ GroupIds(UnitBefore) = {1}
    /\ UnitAfter.tx_groups[op.group_name].id = 2
    /\ Cardinality(DOMAIN UnitAfter.tx_groups) = 2

\* The groups of a unit with their raw data.
RawData(unit) == [g \in DOMAIN unit.tx_groups |-> unit.tx_groups[g].raw_data]

\* C14: rename_group(g, g) on a unit holding g, and change_group_name(g, g)
\* for every unit holding g, leave the unit's group names and each group's
\* raw data as they were; and rename_group(old, new) with new not the name
\* of another group leaves the number of groups of the unit as it was.
C14_RenameToSelfNoOp ==
    /\ (/\ op.name = "MetaAnalyticUnit.rename_group"
        /\ op.old_name \in DOMAIN UnitBefore.tx_groups
        /\ op.new_name \notin DOMAIN UnitBefore.tx_groups \ {op.old_name})
       => /\ Cardinality(DOMAIN UnitAfter.tx_groups) =
                 Cardinality(DOMAIN UnitBefore.tx_groups)
          /\ op.old_name = op.new_name => RawData(UnitAfter) = RawData(UnitBefore)
    /\ (/\ op.name = "change_group_name"
        /\ op.old_group_name = op.new_group_name
        /\ ~OneOfOutcomeAndFollowUp(op.outcome, op.follow_up))
       => \A i \in 1..Len(pre.studies) : \A p \in UnitsOf(pre.studies[i]) :
             op.old_group_name \in DOMAIN UnitAt(pre.studies[i], p).tx_groups
             => /\ p \in UnitsOf(studies[i])
                /\ RawData(UnitAt(studies[i], p)) = RawData(UnitAt(pre.studies[i], p))

================================================================================
